---------------------------- MODULE Spec2Model ----------------------------
(***************************************************************************)
(* Model of the AVA OLO integration layer:                                 *)
(*   - LanguageProcessor (language_processor.py): six operations, each one *)
(*     exchange with a chat-completion API and a reshaping of its reply;   *)
(*   - UIConnector and the FastAPI handlers (web_ui_connector.py): each    *)
(*     forwards to the API Gateway over HTTP and relays the answer.        *)
(*                                                                         *)
(* The program keeps no state between calls.  The state of the model is    *)
(* the record of the last invocation: which operation ran, its arguments,  *)
(* what the external service did, what the caller got back, and how many   *)
(* external calls were issued.  Every action is one whole invocation.      *)
(*                                                                         *)
(* Python values are tagged records [t |-> type, v |-> payload]; a dict's  *)
(* payload is a function from its keys; a str's payload is the sequence of *)
(* the pieces it was built from (single characters in detect_language).    *)
(***************************************************************************)
EXTENDS Integers, Sequences, FiniteSets, TLC

VARIABLES
    op,        \* the operation or handler that ran last ("idle" at start)
    args,      \* its arguments (a record, per operation)
    ext,       \* what the external service (model API or Gateway) did
    ret,       \* what the caller got: a returned value or a raised exception;
               \* for an HTTP handler, the HTTP response
    llmCalls,  \* calls issued to the model API by this invocation
    gwCalls    \* calls issued to the Gateway by this invocation

vars == <<op, args, ext, ret, llmCalls, gwCalls>>

----------------------------------------------------------------------------
(* Bounds of the model                                                     *)

\* longest reply of the model API to detect_language, in characters
MaxReplyLen == 4

----------------------------------------------------------------------------
(* Python values                                                           *)

PyNone == [t |-> "none", v |-> 0]
PyStr(s) == [t |-> "str", v |-> s]
PyBool(b) == [t |-> "bool", v |-> b]
PyList(s) == [t |-> "list", v |-> s]
PyDict(f) == [t |-> "dict", v |-> f]
PyInt(n) == [t |-> "int", v |-> n]
\* a str holding a well-formed JSON document that denotes value pv
PyJson(pv) == [t |-> "json", v |-> pv]
\* a value json.dumps cannot serialise (a datetime, a set, ...)
PyOpaque == [t |-> "object", v |-> 0]

EmptyDict == PyDict(<<>>)
EmptyList == PyList(<<>>)

\* bool(x)
Truthy(x) ==
    CASE x.t = "none" -> FALSE
      [] x.t = "bool" -> x.v
      [] x.t = "str" -> x.v # <<>>
      [] x.t = "list" -> x.v # <<>>
      [] x.t = "dict" -> DOMAIN x.v # {}
      [] x.t = "int" -> x.v # 0
      [] OTHER -> TRUE

\* a == b
PyEq(a, b) == a.t = b.t /\ a.v = b.v

\* d.get(k, default) on the payload of a dict
dict_get(d, k, default) == IF k \in DOMAIN d THEN d[k] ELSE default

\* the pieces of str(x) inside an f-string
str(x) ==
    CASE x.t = "str" -> x.v
      [] x.t = "none" -> <<"None">>
      [] x.t = "bool" -> IF x.v THEN <<"True">> ELSE <<"False">>
      [] OTHER -> <<"repr">>

\* what a call hands back: a value, or an exception
Return(v, n) == [raised |-> FALSE, value |-> v, exc |-> "-", calls |-> n]
Raise(e, n) == [raised |-> TRUE, value |-> PyNone, exc |-> e, calls |-> n]

----------------------------------------------------------------------------
(* The model API (OpenAI chat completions)                                 *)

\* the ways client.chat.completions.create(...) fails: no connection,
\* timeout, non-2xx status
LLMErrors == {"APIConnectionError", "APITimeoutError", "APIStatusError"}

LLMFailure == [kind : {"raise"}, exc : LLMErrors, content : {PyNone}]

LLMReply(contents) == [kind : {"ok"}, exc : {"-"}, content : contents]

\* response = client.chat.completions.create(...);
\* response.choices[0].message.content
chat_completion_content(llm) ==
    IF llm.kind = "ok" THEN Return(llm.content, 1) ELSE Raise(llm.exc, 1)

\* json.loads(content)
json_loads(c) ==
    CASE c.t = "json" -> Return(c.v, 0)
      [] c.t = "str" -> Raise("JSONDecodeError", 0)
      [] OTHER -> Raise("TypeError", 0)

\* pieces that hold characters outside ASCII
NonAscii == {"Prskati p<U+0161>enicu"}

\* the text of one JSON string: ensure_ascii escapes what is not ASCII
json_string(piece, ensure_ascii) ==
    IF ensure_ascii /\ piece \in NonAscii THEN <<"\\u-escaped", piece>> ELSE <<piece>>

\* the text of one JSON value
json_value(x, ensure_ascii) ==
    CASE x.t = "str" -> <<"\"">> \o json_string(x.v[1], ensure_ascii) \o <<"\"">>
      [] x.t = "none" -> <<"null">>
      [] x.t = "bool" -> IF x.v THEN <<"true">> ELSE <<"false">>
      [] OTHER -> <<"[]">>

\* json.dumps(data, ensure_ascii=...) of a dict of at most one entry: a value
\* that is not serialisable raises TypeError
json_dumps(data, ensure_ascii) ==
    IF \E k \in DOMAIN data.v : data.v[k].t = "object"
    THEN Raise("TypeError", 0)
    ELSE IF DOMAIN data.v = {}
    THEN Return(PyStr(<<"{}">>), 0)
    ELSE LET k == CHOOSE key \in DOMAIN data.v : TRUE
         IN Return(PyStr(<<"{", k, ": ">> \o json_value(data.v[k], ensure_ascii)
                         \o <<"}">>), 0)

\* user texts: the empty string and two queries
Queries == {<<>>, <<"Kada sijati kukuruz?">>, <<"spray wheat">>}

----------------------------------------------------------------------------
(* LanguageProcessor.process_query                                         *)

DocumentedKeys ==
    {"language", "normalized_query", "entities", "intent", "agricultural_terms",
     "requires_clarification", "clarification_questions"}

\* a value the model put under a key of its JSON reply
ModelValue(k) ==
    CASE k = "language" -> PyStr(<<"en">>)
      [] k = "normalized_query" -> PyStr(<<"normalized">>)
      [] k = "entities" -> PyDict([crop |-> PyStr(<<"wheat">>)])
      [] k = "intent" -> PyStr(<<"ask_advice">>)
      [] k = "agricultural_terms" -> PyList(<<"wheat">>)
      [] k = "requires_clarification" -> PyBool(TRUE)
      [] k = "clarification_questions" -> PyList(<<"which field?">>)
      [] OTHER -> PyStr(<<"other">>)

\* the JSON objects the model may reply with: any subset of the documented
\* keys, with or without a key nobody asked for
ProcessReplies ==
    {PyJson(PyDict([k \in K |-> ModelValue(k)])) :
        K \in SUBSET (DocumentedKeys \cup {"confidence"})}

\* contents of a reply that is no JSON object, or no JSON, or absent
OddContents == {PyNone, PyStr(<<"Sorry, I cannot">>), PyJson(EmptyList),
                PyJson(PyStr(<<"text">>))}

\* the record of the except branch (lines 65-71)
process_query_fallback(query, e, n) ==
    Return(PyDict([original_query |-> PyStr(query),
                   language |-> PyStr(<<"unknown">>),
                   normalized_query |-> PyStr(query),
                   entities |-> EmptyDict,
                   error |-> PyStr(<<e>>)]), n)

\* the record of the success path (lines 52-61)
process_query_record(query, result) ==
    PyDict([original_query |-> PyStr(query),
            language |-> dict_get(result, "language", PyStr(<<"hr">>)),
            normalized_query |-> dict_get(result, "normalized_query", PyStr(query)),
            entities |-> dict_get(result, "entities", EmptyDict),
            intent |-> dict_get(result, "intent", PyStr(<<"unknown">>)),
            agricultural_terms |-> dict_get(result, "agricultural_terms", EmptyList),
            requires_clarification |->
                dict_get(result, "requires_clarification", PyBool(FALSE)),
            clarification_questions |->
                dict_get(result, "clarification_questions", EmptyList)])

LanguageProcessor_process_query(query, llm) ==
    LET c == chat_completion_content(llm)
        j == json_loads(c.value)
    IN  IF c.raised THEN process_query_fallback(query, c.exc, 1)
        ELSE IF j.raised THEN process_query_fallback(query, j.exc, 1)
        \* result.get on a list or a str: AttributeError
        ELSE IF j.value.t # "dict" THEN process_query_fallback(query, "AttributeError", 1)
        ELSE Return(process_query_record(query, j.value.v), 1)

ProcessQuery ==
    /\ op = "idle"
    /\ \E query \in Queries, llm \in LLMFailure \cup LLMReply(ProcessReplies \cup OddContents) :
        LET r == LanguageProcessor_process_query(query, llm)
        IN  /\ op' = "process_query"
            /\ args' = [query |-> query]
            /\ ext' = llm
            /\ ret' = r
            /\ llmCalls' = r.calls
            /\ gwCalls' = 0

----------------------------------------------------------------------------
(* LanguageProcessor.extract_agricultural_entities                         *)

Categories ==
    {"crops", "chemicals", "fields", "quantities", "dates", "activities", "problems"}

\* the all-empty structure of the except branch (lines 108-116)
EmptyEntities == PyDict([k \in Categories |-> EmptyList])

\* JSON objects the model may reply with: any subset of the categories, with
\* or without a key nobody asked for, each mapped to a list; and two objects
\* that map a category to something else
EntityReplies ==
    {PyJson(PyDict([k \in K |-> PyList(<<"wheat">>)])) :
        K \in SUBSET (Categories \cup {"notes"})}
    \cup {PyJson(PyDict([k \in Categories |->
                            IF k = "crops" THEN PyStr(<<"wheat">>) ELSE EmptyList])),
          PyJson(PyDict([k \in Categories |->
                            IF k = "dates" THEN PyNone ELSE EmptyList]))}

LanguageProcessor_extract_agricultural_entities(text, llm) ==
    LET c == chat_completion_content(llm)
        j == json_loads(c.value)
    IN  IF c.raised \/ j.raised THEN Return(EmptyEntities, 1)
        \* entities = json.loads(...); return entities
        ELSE Return(j.value, 1)

ExtractAgriculturalEntities ==
    /\ op = "idle"
    /\ \E text \in Queries, llm \in LLMFailure \cup LLMReply(EntityReplies \cup OddContents) :
        LET r == LanguageProcessor_extract_agricultural_entities(text, llm)
        IN  /\ op' = "extract_agricultural_entities"
            /\ args' = [text |-> text]
            /\ ext' = llm
            /\ ret' = r
            /\ llmCalls' = r.calls
            /\ gwCalls' = 0

----------------------------------------------------------------------------
(* LanguageProcessor.generate_response                                     *)

\* answer payloads: empty, plain ASCII, with non-ASCII text, and one holding a
\* value json.dumps cannot serialise
AnswerData ==
    {EmptyDict,
     PyDict([advice |-> PyStr(<<"Sijte u travnju.">>)]),
     PyDict([advice |-> PyStr(<<"Prskati p<U+0161>enicu">>)]),
     PyDict([when |-> PyOpaque])}

Languages == {<<"hr">>, <<"en">>, <<"sl">>}

\* free-text contents of a reply
TextContents == {PyNone, PyStr(<<>>), PyStr(<<"model text">>)}

\* lines 235-240
generate_fallback_response(query, answer_data, language) ==
    LET d == IF language = <<"hr">> THEN json_dumps(answer_data, FALSE)
             ELSE json_dumps(answer_data, TRUE)
    IN  IF d.raised THEN d
        ELSE IF language = <<"hr">>
        THEN Return(PyStr(<<"Informacije o va<U+0161>em upitu: ">> \o d.value.v), 0)
        ELSE Return(PyStr(<<"Information about your query: ">> \o d.value.v), 0)

LanguageProcessor_generate_response(query, answer_data, language, llm) ==
    LET \* the prompt's f-string: json.dumps(answer_data, ensure_ascii=False, indent=2)
        p == json_dumps(answer_data, FALSE)
        c == chat_completion_content(llm)
        f == generate_fallback_response(query, answer_data, language)
    IN  IF p.raised
        THEN (IF f.raised THEN Raise(f.exc, 0) ELSE Return(f.value, 0))
        ELSE IF c.raised
        THEN (IF f.raised THEN Raise(f.exc, 1) ELSE Return(f.value, 1))
        ELSE Return(c.value, 1)

GenerateResponse ==
    /\ op = "idle"
    /\ \E query \in Queries, answer_data \in AnswerData, language \in Languages,
       llm \in LLMFailure \cup LLMReply(TextContents) :
        LET r == LanguageProcessor_generate_response(query, answer_data, language, llm)
        IN  /\ op' = "generate_response"
            /\ args' = [query |-> query, answer_data |-> answer_data,
                        language |-> language]
            /\ ext' = llm
            /\ ret' = r
            /\ llmCalls' = r.calls
            /\ gwCalls' = 0

----------------------------------------------------------------------------
(* LanguageProcessor.detect_language                                       *)
(* Here a str is the sequence of its characters.                           *)

\* characters of a reply: blank, newline, a lower-case letter, an upper-case
\* letter, and U+0130, whose lower() is the two characters "i" U+0307
Chars == {" ", "\n", "h", "R", "<U+0130>"}

Whitespace == {" ", "\n"}

RawReplies == UNION {[1..n -> Chars] : n \in 0..MaxReplyLen}

RECURSIVE lstrip(_)
lstrip(s) == IF s # <<>> /\ Head(s) \in Whitespace THEN lstrip(Tail(s)) ELSE s

RECURSIVE rstrip(_)
rstrip(s) ==
    IF s # <<>> /\ s[Len(s)] \in Whitespace THEN rstrip(SubSeq(s, 1, Len(s) - 1)) ELSE s

\* str.strip()
strip(s) == rstrip(lstrip(s))

lower_char(c) ==
    CASE c = "R" -> <<"r">>
      [] c = "<U+0130>" -> <<"i", "<U+0307>">>
      [] OTHER -> <<c>>

\* str.lower()
RECURSIVE lower(_)
lower(s) == IF s = <<>> THEN <<>> ELSE lower_char(Head(s)) \o lower(Tail(s))

DefaultLanguage == <<"h", "r">>

\* mutation of detect_language: line 179 returns lang_code whatever its length
Mutant_detect_language_no_length_check(text, llm) ==
    LET c == chat_completion_content(llm)
        lang_code == lower(strip(c.value.v))
    IN  IF c.raised THEN Return(PyStr(DefaultLanguage), 1)
        ELSE IF c.value.t # "str" THEN Return(PyStr(DefaultLanguage), 1)
        ELSE Return(PyStr(lang_code), 1)

LanguageProcessor_detect_language(text, llm) ==
    LET c == chat_completion_content(llm)
        lang_code == lower(strip(c.value.v))
    IN  IF c.raised THEN Return(PyStr(DefaultLanguage), 1)
        \* None.strip(): AttributeError
        ELSE IF c.value.t # "str" THEN Return(PyStr(DefaultLanguage), 1)
        ELSE IF Len(lang_code) = 2 THEN Return(PyStr(lang_code), 1)
        ELSE Return(PyStr(DefaultLanguage), 1)

DetectLanguage ==
    /\ op = "idle"
    /\ \E text \in Queries,
       llm \in LLMFailure \cup LLMReply({PyNone} \cup {PyStr(r) : r \in RawReplies}) :
        LET r == LanguageProcessor_detect_language(text, llm)
        IN  /\ op' = "detect_language"
            /\ args' = [text |-> text]
            /\ ext' = llm
            /\ ret' = r
            /\ llmCalls' = r.calls
            /\ gwCalls' = 0

----------------------------------------------------------------------------
(* LanguageProcessor.translate_response                                    *)

\* mutation of translate_response: the except branch returns an empty string
Mutant_translate_response_empty_on_failure(text, target_language, llm) ==
    LET c == chat_completion_content(llm)
    IN  IF c.raised THEN Return(PyStr(<<>>), 1) ELSE Return(c.value, 1)

LanguageProcessor_translate_response(text, target_language, llm) ==
    LET c == chat_completion_content(llm)
    IN  IF c.raised THEN Return(PyStr(text), 1) ELSE Return(c.value, 1)

TranslateResponse ==
    /\ op = "idle"
    /\ \E text \in Queries, target_language \in Languages,
       llm \in LLMFailure \cup LLMReply(TextContents) :
        LET r == LanguageProcessor_translate_response(text, target_language, llm)
        IN  /\ op' = "translate_response"
            /\ args' = [text |-> text, target_language |-> target_language]
            /\ ext' = llm
            /\ ret' = r
            /\ llmCalls' = r.calls
            /\ gwCalls' = 0

----------------------------------------------------------------------------
(* LanguageProcessor.enhance_with_context                                  *)

RecognizedKeys == {"recent_topics", "current_field", "current_crop"}

\* values a caller may put under a key of the context
ContextValues(k) ==
    CASE k = "recent_topics" -> {EmptyList, PyList(<<"wheat", "rust">>), PyInt(5)}
      [] k = "current_field" -> {PyStr(<<>>), PyStr(<<"North">>)}
      [] k = "current_crop" -> {PyNone, PyStr(<<"corn">>)}
      [] OTHER -> {PyInt(7)}

ContextKeys == RecognizedKeys \cup {"farmer_id"}

\* context mappings, and None in place of a mapping
Contexts ==
    {PyNone} \cup
    UNION {{PyDict(f) : f \in {g \in [K -> UNION {ContextValues(k) : k \in ContextKeys}] :
                                  \A k \in K : g[k] \in ContextValues(k)}} :
           K \in SUBSET ContextKeys}

\* one "if context.get(k): context_parts.append(...)" (lines 251-258); raises
\* when the value cannot be formatted (', '.join of something not a list of str)
context_part(context, k) ==
    LET x == dict_get(context, k, PyNone)
    IN  IF ~Truthy(x) THEN Return(PyStr(<<>>), 0)
        ELSE IF k = "recent_topics"
        THEN (IF x.t = "list" THEN Return(PyStr(<<"Recent topics: ">> \o x.v), 0)
              ELSE Raise("TypeError", 0))
        ELSE IF k = "current_field"
        THEN Return(PyStr(<<"Current field: ">> \o str(x)), 0)
        ELSE Return(PyStr(<<"Current crop: ">> \o str(x)), 0)

\* mutation of enhance_with_context: line 260 tests the context, not the
\* parts built from it
Mutant_enhance_with_context_tests_context(query, context, llm) ==
    LET t == context_part(context.v, "recent_topics")
        c == chat_completion_content(llm)
    IN  IF context.t # "dict" THEN Return(PyStr(query), 0)
        ELSE IF t.raised THEN Return(PyStr(query), 0)
        ELSE IF ~Truthy(context) THEN Return(PyStr(query), 0)
        ELSE IF c.raised THEN Return(PyStr(query), 1)
        ELSE Return(c.value, 1)

LanguageProcessor_enhance_with_context(query, context, llm) ==
    LET t == context_part(context.v, "recent_topics")
        f == context_part(context.v, "current_field")
        r == context_part(context.v, "current_crop")
        context_parts == t.value.v \o f.value.v \o r.value.v
        c == chat_completion_content(llm)
    IN  \* None.get(...): AttributeError, caught at line 281
        IF context.t # "dict" THEN Return(PyStr(query), 0)
        ELSE IF t.raised THEN Return(PyStr(query), 0)
        ELSE IF context_parts = <<>> THEN Return(PyStr(query), 0)
        ELSE IF c.raised THEN Return(PyStr(query), 1)
        ELSE Return(c.value, 1)

EnhanceWithContext ==
    /\ op = "idle"
    /\ \E query \in Queries, context \in Contexts,
       llm \in LLMFailure \cup LLMReply(TextContents) :
        LET r == LanguageProcessor_enhance_with_context(query, context, llm)
        IN  /\ op' = "enhance_with_context"
            /\ args' = [query |-> query, context |-> context]
            /\ ext' = llm
            /\ ret' = r
            /\ llmCalls' = r.calls
            /\ gwCalls' = 0

----------------------------------------------------------------------------
(* The API Gateway, as httpx sees it                                       *)

\* the ways an httpx request fails: connection refused, timeout
GwErrors == {"ConnectError", "ReadTimeout"}

GwStatuses == {200, 404, 503}

GwFailure == [kind : {"raise"}, exc : GwErrors, status_code : {0}, body : {PyNone}]

GwResponse(bodies) ==
    [kind : {"response"}, exc : {"-"}, status_code : GwStatuses, body : bodies]

\* a body that is no JSON document
Unparseable == PyStr(<<"<html>Bad Gateway</html>">>)

\* response.json()
response_json(response) ==
    IF response.body.t = "json" THEN Return(response.body.v, 0)
    ELSE Raise("JSONDecodeError", 0)

QueryBodyKeys == {"success", "answer", "metadata"}

QueryBodyValues(k) ==
    CASE k = "success" -> {PyBool(TRUE), PyBool(FALSE)}
      [] k = "answer" -> {PyStr(<<"Sijte u travnju.">>), PyNone}
      [] OTHER -> {PyNone, EmptyDict,
                   PyDict([language |-> PyStr(<<"hr">>)]),
                   PyDict([language |-> PyStr(<<"en">>)]),
                   PyDict([source |-> PyStr(<<"kb">>)]),
                   PyStr(<<"meta">>)}

\* bodies the Gateway may answer POST /api/v1/query with: JSON objects with any
\* subset of the keys of a GatewayResponse, a JSON array, and no JSON at all
QueryBodies ==
    {Unparseable, PyJson(EmptyList)} \cup
    UNION {{PyJson(PyDict(f)) :
               f \in {g \in [K -> UNION {QueryBodyValues(k) : k \in QueryBodyKeys}] :
                         \A k \in K : g[k] \in QueryBodyValues(k)}} :
           K \in SUBSET QueryBodyKeys}

\* bodies the Gateway may answer its GET endpoints with
GetBodies ==
    {Unparseable, PyJson(EmptyList), PyJson(EmptyDict),
     PyJson(PyDict([status |-> PyStr(<<"healthy">>)])),
     PyJson(PyDict([detail |-> PyStr(<<"Not Found">>)]))}

FarmerIds == {PyNone, PyInt(1)}

----------------------------------------------------------------------------
(* UIConnector.process_query                                               *)

ApiErrorApology == <<"Oprosti, dogodila se gre<U+0161>ka. Molim poku<U+0161>aj ponovno.">>

UnavailableApology == <<"Servis je trenutno nedostupan. Molim poku<U+0161>aj kasnije.">>

\* lines 69-73
connector_unavailable(e) ==
    Return(PyDict([success |-> PyBool(FALSE),
                   answer |-> PyStr(UnavailableApology),
                   error |-> PyStr(<<e>>)]), 1)

\* mutation of UIConnector.process_query: a request that raised is sent once
\* more before the apology is returned
Mutant_process_query_retries(query, farmer_id, gw) ==
    LET j == response_json(gw)
    IN  IF gw.kind = "raise"
        THEN [connector_unavailable(gw.exc) EXCEPT !.calls = 2]
        ELSE IF gw.status_code = 200
        THEN (IF j.raised THEN connector_unavailable(j.exc) ELSE Return(j.value, 1))
        ELSE Return(PyDict([success |-> PyBool(FALSE),
                            answer |-> PyStr(ApiErrorApology),
                            error |-> PyStr(<<"API error: ", ToString(gw.status_code)>>)]),
                    1)

\* mutation of UIConnector.process_query: the status check of line 57 is gone
\* and every response is relayed
Mutant_process_query_no_status_check(query, farmer_id, gw) ==
    LET j == response_json(gw)
    IN  IF gw.kind = "raise" THEN connector_unavailable(gw.exc)
        ELSE IF j.raised THEN connector_unavailable(j.exc)
        ELSE Return(j.value, 1)

UIConnector_process_query(query, farmer_id, gw) ==
    LET j == response_json(gw)
    IN  IF gw.kind = "raise" THEN connector_unavailable(gw.exc)
        ELSE IF gw.status_code = 200
        THEN (IF j.raised THEN connector_unavailable(j.exc) ELSE Return(j.value, 1))
        ELSE Return(PyDict([success |-> PyBool(FALSE),
                            answer |-> PyStr(ApiErrorApology),
                            error |-> PyStr(<<"API error: ", ToString(gw.status_code)>>)]),
                    1)

ConnectorProcessQuery ==
    /\ op = "idle"
    /\ \E query \in Queries, farmer_id \in FarmerIds,
       gw \in GwFailure \cup GwResponse(QueryBodies) :
        LET r == UIConnector_process_query(query, farmer_id, gw)
        IN  /\ op' = "connector_process_query"
            /\ args' = [query |-> query, farmer_id |-> farmer_id]
            /\ ext' = gw
            /\ ret' = r
            /\ llmCalls' = 0
            /\ gwCalls' = r.calls

----------------------------------------------------------------------------
(* The HTTP handlers.  A handler answers with a status and a body; an      *)
(* exception that leaves a handler is answered by the framework with 500.  *)

HttpResponse(status, body, n) == [status |-> status, body |-> body, calls |-> n]

\* an exception nobody caught: the server-error response
ServerFault(e, n) == HttpResponse(500, PyStr(<<"Internal Server Error: ", e>>), n)

\* raise HTTPException(status_code=..., detail=...)
HTTPException(status, detail, n) == HttpResponse(status, PyDict([detail |-> PyStr(detail)]), n)

\* mutation of process_form: line 99 no longer asks for success
Mutant_process_form_ignores_success(question, gw) ==
    LET c == UIConnector_process_query(question, PyNone, gw)
        result == c.value
        response_text == dict_get(result.v, "answer", PyStr(<<"No response">>))
        metadata == result.v["metadata"]
        language == dict_get(metadata.v, "language", PyNone)
    IN  IF result.t # "dict" THEN ServerFault("AttributeError", c.calls)
        ELSE IF Truthy(dict_get(result.v, "metadata", PyNone))
        THEN IF metadata.t # "dict" THEN ServerFault("AttributeError", c.calls)
             ELSE IF ~PyEq(language, PyStr(<<"hr">>))
             THEN IF response_text.t # "str" THEN ServerFault("TypeError", c.calls)
                  ELSE HttpResponse(200,
                           PyStr(response_text.v \o <<"\n\n[Detected language: ">>
                                 \o str(language) \o <<"]">>),
                           c.calls)
             ELSE HttpResponse(200, response_text, c.calls)
        ELSE HttpResponse(200, response_text, c.calls)

\* POST / (lines 87-108)
process_form(question, gw) ==
    LET c == UIConnector_process_query(question, PyNone, gw)
        result == c.value
        response_text == dict_get(result.v, "answer", PyStr(<<"No response">>))
        metadata == result.v["metadata"]
        language == dict_get(metadata.v, "language", PyNone)
    IN  \* result.get on a list: AttributeError
        IF result.t # "dict" THEN ServerFault("AttributeError", c.calls)
        ELSE IF Truthy(dict_get(result.v, "success", PyNone))
                /\ Truthy(dict_get(result.v, "metadata", PyNone))
        THEN \* metadata.get on a str: AttributeError
             IF metadata.t # "dict" THEN ServerFault("AttributeError", c.calls)
             ELSE IF ~PyEq(language, PyStr(<<"hr">>))
             THEN \* None += str: TypeError
                  IF response_text.t # "str" THEN ServerFault("TypeError", c.calls)
                  ELSE HttpResponse(200,
                           PyStr(response_text.v \o <<"\n\n[Detected language: ">>
                                 \o str(language) \o <<"]">>),
                           c.calls)
             ELSE HttpResponse(200, response_text, c.calls)
        ELSE HttpResponse(200, response_text, c.calls)

ProcessForm ==
    /\ op = "idle"
    /\ \E question \in Queries, gw \in GwFailure \cup GwResponse(QueryBodies) :
        LET r == process_form(question, gw)
        IN  /\ op' = "process_form"
            /\ args' = [question |-> question]
            /\ ext' = gw
            /\ ret' = r
            /\ llmCalls' = 0
            /\ gwCalls' = r.calls

\* bodies of a POST /ask request: no JSON, a JSON array, and JSON objects with
\* or without "question" and "farmer_id"
AskBodies ==
    {Unparseable, PyJson(EmptyList), PyJson(EmptyDict),
     PyJson(PyDict([farmer_id |-> PyInt(1)])),
     PyJson(PyDict([question |-> PyStr(<<>>)])),
     PyJson(PyDict([question |-> PyNone])),
     PyJson(PyDict([question |-> PyStr(<<"Kada sijati kukuruz?">>)])),
     PyJson(PyDict([question |-> PyStr(<<"spray wheat">>), farmer_id |-> PyInt(1)]))}

\* POST /ask (lines 111-128): whatever is raised inside the try, the
\* HTTPException of line 120 included, is caught at line 126 and raised again
\* as HTTPException(500)
ask_api(request, gw) ==
    LET d == response_json(request)
        data == d.value
        question == dict_get(data.v, "question", PyStr(<<>>))
        farmer_id == dict_get(data.v, "farmer_id", PyNone)
        c == UIConnector_process_query(question.v, farmer_id, gw)
    IN  IF d.raised THEN HTTPException(500, <<d.exc>>, 0)
        ELSE IF data.t # "dict" THEN HTTPException(500, <<"AttributeError">>, 0)
        ELSE IF ~Truthy(question)
        THEN HTTPException(500, <<"400: Question is required">>, 0)
        ELSE HttpResponse(200, c.value, c.calls)

AskApi ==
    /\ op = "idle"
    /\ \E body \in AskBodies, gw \in GwFailure \cup GwResponse(QueryBodies) :
        LET r == ask_api([body |-> body], gw)
        IN  /\ op' = "ask_api"
            /\ args' = [body |-> body]
            /\ ext' = gw
            /\ ret' = r
            /\ llmCalls' = 0
            /\ gwCalls' = r.calls

\* GET /dashboard/stats (lines 137-155)
get_dashboard_stats(gw) ==
    LET j == response_json(gw)
        health == IF gw.status_code = 200 THEN j.value
                  ELSE PyDict([status |-> PyStr(<<"unknown">>)])
    IN  IF gw.kind = "raise"
        THEN HttpResponse(200, PyDict([error |-> PyStr(<<gw.exc>>)]), 1)
        ELSE IF gw.status_code = 200 /\ j.raised
        THEN HttpResponse(200, PyDict([error |-> PyStr(<<j.exc>>)]), 1)
        ELSE IF health.t # "dict"
        THEN HttpResponse(200, PyDict([error |-> PyStr(<<"AttributeError">>)]), 1)
        ELSE HttpResponse(200,
                 PyDict([system_health |->
                             dict_get(health.v, "status", PyStr(<<"unknown">>)),
                         total_queries |-> PyInt(0),
                         active_farmers |-> PyInt(0),
                         response_time_avg |-> PyInt(0)]),
                 1)

GetDashboardStats ==
    /\ op = "idle"
    /\ \E gw \in GwFailure \cup GwResponse(GetBodies) :
        LET r == get_dashboard_stats(gw)
        IN  /\ op' = "get_dashboard_stats"
            /\ args' = <<>>
            /\ ext' = gw
            /\ ret' = r
            /\ llmCalls' = 0
            /\ gwCalls' = r.calls

\* GET /fields/api/{farmer_id} (lines 163-172)
get_fields_api(farmer_id, gw) ==
    LET j == response_json(gw)
    IN  IF gw.kind = "raise" THEN HTTPException(500, <<gw.exc>>, 1)
        ELSE IF j.raised THEN HTTPException(500, <<j.exc>>, 1)
        ELSE HttpResponse(200, j.value, 1)

GetFieldsApi ==
    /\ op = "idle"
    /\ \E farmer_id \in {1, 2}, gw \in GwFailure \cup GwResponse(GetBodies) :
        LET r == get_fields_api(farmer_id, gw)
        IN  /\ op' = "get_fields_api"
            /\ args' = [farmer_id |-> farmer_id]
            /\ ext' = gw
            /\ ret' = r
            /\ llmCalls' = 0
            /\ gwCalls' = r.calls

\* GET /weather/{location} (lines 175-184)
get_weather_widget(location, gw) ==
    LET j == response_json(gw)
    IN  IF gw.kind = "raise"
        THEN HttpResponse(200, PyDict([error |-> PyStr(<<gw.exc>>)]), 1)
        ELSE IF j.raised THEN HttpResponse(200, PyDict([error |-> PyStr(<<j.exc>>)]), 1)
        ELSE HttpResponse(200, j.value, 1)

GetWeatherWidget ==
    /\ op = "idle"
    /\ \E location \in {<<"Zagreb">>, <<"Osijek">>}, gw \in GwFailure \cup GwResponse(GetBodies) :
        LET r == get_weather_widget(location, gw)
        IN  /\ op' = "get_weather_widget"
            /\ args' = [location |-> location]
            /\ ext' = gw
            /\ ret' = r
            /\ llmCalls' = 0
            /\ gwCalls' = r.calls

----------------------------------------------------------------------------
(* The handlers that render a page or answer from memory: no Gateway call  *)

\* templates.TemplateResponse(name, ...): the page of that name
TemplateResponse(name) == HttpResponse(200, PyStr(<<name>>), 0)

\* GET / (lines 79-85)
home == TemplateResponse("form.html")

Home ==
    /\ op = "idle"
    /\ op' = "home"
    /\ args' = <<>>
    /\ ext' = <<>>
    /\ ret' = home
    /\ llmCalls' = 0
    /\ gwCalls' = ret'.calls

\* GET /dashboard (lines 131-134)
dashboard == TemplateResponse("dashboard.html")

Dashboard ==
    /\ op = "idle"
    /\ op' = "dashboard"
    /\ args' = <<>>
    /\ ext' = <<>>
    /\ ret' = dashboard
    /\ llmCalls' = 0
    /\ gwCalls' = ret'.calls

\* GET /fields (lines 158-161)
fields_page == TemplateResponse("fields.html")

FieldsPage ==
    /\ op = "idle"
    /\ op' = "fields_page"
    /\ args' = <<>>
    /\ ext' = <<>>
    /\ ret' = fields_page
    /\ llmCalls' = 0
    /\ gwCalls' = ret'.calls

\* GET /test (lines 187-194)
test_endpoint ==
    HttpResponse(200,
        PyDict([status |-> PyStr(<<"ok">>),
                message |-> PyStr(<<"AVA OLO Web UI is running">>),
                api_gateway |-> PyStr(<<"API_GATEWAY_URL">>)]),
        0)

TestEndpoint ==
    /\ op = "idle"
    /\ op' = "test_endpoint"
    /\ args' = <<>>
    /\ ext' = <<>>
    /\ ret' = test_endpoint
    /\ llmCalls' = 0
    /\ gwCalls' = ret'.calls

----------------------------------------------------------------------------
(* The caller takes the result; the program is ready for the next call      *)

Respond ==
    /\ op # "idle"
    /\ op' = "idle"
    /\ args' = <<>>
    /\ ext' = <<>>
    /\ ret' = Return(PyNone, 0)
    /\ llmCalls' = 0
    /\ gwCalls' = 0

----------------------------------------------------------------------------

Init ==
    /\ op = "idle"
    /\ args = <<>>
    /\ ext = <<>>
    /\ ret = Return(PyNone, 0)
    /\ llmCalls = 0
    /\ gwCalls = 0

Next ==
    \/ ProcessQuery
    \/ ExtractAgriculturalEntities
    \/ GenerateResponse
    \/ DetectLanguage
    \/ TranslateResponse
    \/ EnhanceWithContext
    \/ ConnectorProcessQuery
    \/ ProcessForm
    \/ AskApi
    \/ GetDashboardStats
    \/ GetFieldsApi
    \/ GetWeatherWidget
    \/ Home
    \/ Dashboard
    \/ FieldsPage
    \/ TestEndpoint
    \/ Respond

Spec == Init /\ [][Next]_vars

----------------------------------------------------------------------------
(* Properties                                                              *)

\* the model call failed, or its reply is no JSON object
ModelCallFailed ==
    ext.kind = "raise" \/ ext.content.t # "json" \/ ext.content.v.t # "dict"

\* the Gateway call failed: transport error or timeout, a status other than
\* 200, or a body that is no JSON
GatewayFailed == ext.kind = "raise" \/ ext.status_code # 200 \/ ext.body.t # "json"

\* the value process_query documents for a key the model did not supply
\* (on the failure path: language "unknown", the original text, no entities)
FailureDefault(k) ==
    CASE k = "language" -> PyStr(<<"unknown">>)
      [] k = "normalized_query" -> PyStr(args.query)
      [] k = "entities" -> EmptyDict
      [] k = "intent" -> PyStr(<<"unknown">>)
      [] k = "requires_clarification" -> PyBool(FALSE)
      [] OTHER -> EmptyList

\* C1: whatever the text and whatever the model call did, the record
\* process_query returns holds all seven documented keys, and on the failure
\* path each of them holds its default.
C1_AllSevenKeys ==
    op = "process_query" =>
        /\ ~ret.raised
        /\ ret.value.t = "dict"
        /\ DocumentedKeys \subseteq DOMAIN ret.value.v
        /\ ModelCallFailed =>
               \A k \in DocumentedKeys : PyEq(ret.value.v[k], FailureDefault(k))

QueryProcessorOps ==
    {"process_query", "extract_agricultural_entities", "generate_response",
     "detect_language", "translate_response", "enhance_with_context"}

\* C2: every operation of the query processor returns a value to its caller
\* and never raises, whatever the input and whatever fails; generate_response
\* returns a string also when the failure recurs inside its fallback.
C2_NeverRaises ==
    op \in QueryProcessorOps =>
        /\ ~ret.raised
        /\ (op = "generate_response" /\ (ext.kind = "raise" \/ llmCalls = 0))
               => ret.value.t = "str"

Apologies == {ApiErrorApology, UnavailableApology}

\* C3: UIConnector.process_query never raises; on a transport error, a
\* timeout, a status other than 200 or an unparseable 200 body it returns a
\* record with success False and a fixed apology as answer, and POST / then
\* renders that apology as the response text.
C3_ConnectorApology ==
    /\ op = "connector_process_query" => ~ret.raised
    /\ (op = "connector_process_query" /\ GatewayFailed) =>
           /\ ret.value.t = "dict"
           /\ {"success", "answer"} \subseteq DOMAIN ret.value.v
           /\ PyEq(ret.value.v["success"], PyBool(FALSE))
           /\ ret.value.v["answer"].t = "str"
           /\ ret.value.v["answer"].v \in Apologies
    /\ (op = "process_form" /\ GatewayFailed) =>
           /\ ret.status = 200
           /\ ret.body.t = "str"
           /\ ret.body.v \in Apologies

\* C3 witness: the Gateway answered 200 with a body that is no JSON, and
\* POST / rendered the apology.
C3_Witness ==
    /\ op = "process_form"
    /\ ext.kind = "response"
    /\ ext.status_code = 200
    /\ ext.body.t = "str"
    /\ ret.status = 200
    /\ ret.body.t = "str"
    /\ ret.body.v = UnavailableApology

\* the JSON object of a POST /ask request lacks "question" or holds an empty one
QuestionMissing ==
    /\ args.body.t = "json"
    /\ args.body.v.t = "dict"
    /\ ~Truthy(dict_get(args.body.v.v, "question", PyStr(<<>>)))

\* C4: POST /ask without a "question" (or with an empty one) is answered with
\* a 4xx response, and no call to the Gateway is made.
C4_MissingQuestionClientError ==
    (op = "ask_api" /\ QuestionMissing) =>
        /\ ret.status \in 400..499
        /\ gwCalls = 0

\* what the connector handed to POST / in the current state
FormResult == UIConnector_process_query(args.question, PyNone, ext).value

FormAnswer == dict_get(FormResult.v, "answer", PyStr(<<"No response">>))

FormLanguage ==
    dict_get(dict_get(FormResult.v, "metadata", EmptyDict).v, "language", PyNone)

\* the result is successful, carries metadata, and the language in the
\* metadata is not "hr"
AnnotationDue ==
    /\ Truthy(dict_get(FormResult.v, "success", PyNone))
    /\ Truthy(dict_get(FormResult.v, "metadata", PyNone))
    /\ ~PyEq(FormLanguage, PyStr(<<"hr">>))

\* C5: on POST / the rendered text is the answer followed by the language
\* annotation exactly when the result is successful, carries metadata and the
\* language in it differs from "hr"; otherwise it is the answer unchanged.
C5_LanguageAnnotation ==
    (op = "process_form" /\ ret.status = 200) =>
        /\ AnnotationDue =>
               /\ ret.body.t = "str"
               /\ ret.body.v = FormAnswer.v \o <<"\n\n[Detected language: ">>
                                  \o str(FormLanguage) \o <<"]">>
        /\ ~AnnotationDue => PyEq(ret.body, FormAnswer)

\* C5 witness: a successful result whose metadata says "en" was rendered with
\* the annotation.
C5_Witness ==
    /\ op = "process_form"
    /\ ret.status = 200
    /\ AnnotationDue
    /\ ret.body.t = "str"
    /\ ret.body.v = <<"Sijte u travnju.", "\n\n[Detected language: ", "en", "]">>

\* C6: whatever the text and whatever the model call did (a reply that omits
\* categories, adds keys or is no object included), the mapping returned by
\* extract_agricultural_entities has exactly the seven categories as keys and
\* a list under each.
C6_ExactlySevenCategories ==
    op = "extract_agricultural_entities" =>
        /\ ~ret.raised
        /\ ret.value.t = "dict"
        /\ DOMAIN ret.value.v = Categories
        /\ \A k \in Categories : ret.value.v[k].t = "list"

\* C7: detect_language returns a string of exactly two characters: the reply
\* trimmed and lower-cased when that has length 2, and "hr" when it has any
\* other length or the call fails.
C7_DetectLanguageTwoChars ==
    op = "detect_language" =>
        /\ ~ret.raised
        /\ ret.value.t = "str"
        /\ Len(ret.value.v) = 2
        /\ (ext.kind = "ok" /\ ext.content.t = "str"
              /\ Len(lower(strip(ext.content.v))) = 2)
               => ret.value.v = lower(strip(ext.content.v))
        /\ (ext.kind = "ok" /\ ext.content.t = "str"
              /\ Len(lower(strip(ext.content.v))) # 2)
               => ret.value.v = <<"h", "r">>
        /\ ext.kind = "raise" => ret.value.v = <<"h", "r">>

\* C7 witness: a reply that had to be trimmed and lower-cased came back as a
\* two-character code.
C7_Witness ==
    /\ op = "detect_language"
    /\ ext.kind = "ok"
    /\ ext.content.t = "str"
    /\ ext.content.v = <<" ", "R", "h", "\n">>
    /\ ret.value.v = <<"r", "h">>

\* C8: when the model call fails, translate_response returns exactly the text
\* it was given, and raises nothing.
C8_TranslateIdentityOnFailure ==
    (op = "translate_response" /\ ext.kind = "raise") =>
        /\ ~ret.raised
        /\ PyEq(ret.value, PyStr(args.text))

\* C8 witness: a translation whose model call failed gave the text back.
C8_Witness ==
    /\ op = "translate_response"
    /\ ext.kind = "raise"
    /\ args.text = <<"spray wheat">>
    /\ ~ret.raised
    /\ ret.value.v = <<"spray wheat">>

\* the context is a mapping that holds none of the recognized keys
NoRecognizedKey ==
    args.context.t = "dict" /\ DOMAIN args.context.v \cap RecognizedKeys = {}

\* C9: enhance_with_context returns the query unmodified, and calls the model
\* not at all, when the context holds none of recent_topics, current_field,
\* current_crop; when a recognized key is present and the model call fails it
\* returns the original query too.
C9_EnhanceIdentity ==
    op = "enhance_with_context" =>
        /\ NoRecognizedKey =>
               /\ ~ret.raised
               /\ PyEq(ret.value, PyStr(args.query))
               /\ llmCalls = 0
        /\ (args.context.t = "dict" /\ ~NoRecognizedKey /\ ext.kind = "raise") =>
               /\ ~ret.raised
               /\ PyEq(ret.value, PyStr(args.query))

\* C9 witness: a context with one key, not a recognized one, and a model that
\* would have answered: the query came back and no call was made.
C9_Witness ==
    /\ op = "enhance_with_context"
    /\ args.context.t = "dict"
    /\ DOMAIN args.context.v = {"farmer_id"}
    /\ ext.kind = "ok"
    /\ PyEq(ext.content, PyStr(<<"model text">>))
    /\ args.query = <<"spray wheat">>
    /\ PyEq(ret.value, PyStr(<<"spray wheat">>))
    /\ llmCalls = 0

GatewayHandlers ==
    {"process_form", "ask_api", "get_dashboard_stats", "get_fields_api",
     "get_weather_widget"}

\* C10: in the web front end a failed Gateway call is caught by the handler
\* that made it and answered with a default as a normal response: none of
\* POST /, POST /ask, GET /dashboard/stats, GET /fields/api/{farmer_id} and
\* GET /weather/{location} answers a Gateway failure with a server fault.
C10_NoServerFaultOnGatewayFailure ==
    (op \in GatewayHandlers /\ gwCalls > 0 /\ GatewayFailed) => ret.status < 500

\* every handler of the front end, and the connector's own operation
FrontEndOps ==
    GatewayHandlers \cup {"connector_process_query", "home", "dashboard",
                          "fields_page", "test_endpoint"}

\* C11: nothing retries: one invocation of an operation of the query
\* processor issues at most one call to the model API, and the handling of
\* one HTTP request by the front end (or one UIConnector.process_query call)
\* issues at most one call to the Gateway, whether the call succeeds or fails.
C11_NoRetries ==
    /\ op \in QueryProcessorOps => (llmCalls <= 1 /\ gwCalls = 0)
    /\ op \in FrontEndOps => (gwCalls <= 1 /\ llmCalls = 0)
    /\ op \in QueryProcessorOps \cup FrontEndOps \cup {"idle"}

\* C11 witness: POST / whose Gateway call failed was answered after that one
\* call.
C11_Witness ==
    /\ op = "process_form"
    /\ ext.kind = "raise"
    /\ gwCalls = 1
    /\ ret.status = 200
    /\ ret.body.v = UnavailableApology

=============================================================================
